---- MODULE Spec2Model ----
(***************************************************************************)
(* sheets-uploader: Config.Exec's worker pool (src/sheets/app.go, the      *)
(* version with NWorkers, lines 1-269).  The dispatch loop hands the       *)
(* sheets of the fetched document to NWorkers goroutines over the          *)
(* unbuffered channel sheetCh and receives one error value per sheet over  *)
(* the unbuffered channel errCh.  Each worker runs uploadSheet: render the *)
(* file name, encode the rows as CSV, look up the stored checksum, skip or *)
(* write.                                                                  *)
(*                                                                         *)
(* Strings are TLA+ strings, byte slices are strings, a nil error is the   *)
(* string "nil".  An unbuffered channel operation is one step taken by the *)
(* sender and the receiver together.                                       *)
(***************************************************************************)
EXTENDS Integers, Sequences, FiniteSets, TLC

\* ---------------------------------------------------------------- bounds
MaxWorkers == 2
MaxSheets == 2
\* Runs of the program against the same bucket.
MaxRuns == 2
\* Writes the file under makeCSV accepts before one fails.
MaxOkWrites == 3
\* Rows of a grid encoded on its own.
MaxRows == 2

\* ---------------------------------------------------------------- inputs
Nil == "nil"
\* A nil []byte (Attributes without an MD5).
NoMD5 == <<>>

\* -filename values: the default of FromArgs, a title-only template, a
\* template without actions, one that parses but fails in Execute after
\* writing the title, and one that does not parse.
FtDefault == "{{.Properties.Index}} {{.Properties.Title}}.csv"
FtTitle == "{{.Properties.Title}}.csv"
FtConst == "data.csv"
FtBadField == "{{.Properties.Title}}{{.Nope}}.csv"
FtUnparsable == "{{"
FileTemplates == {FtDefault, FtConst, FtBadField, FtUnparsable}

\* -path values: the default, one failing in Execute, one that does not parse.
PtDefault == "{{.Properties.Title}}"
PtBadField == "{{.Nope}}"
PtUnparsable == "{{"
PathTemplates == {PtDefault, PtBadField, PtUnparsable}

DocTitle == "Budget"
GridBlankAB == << <<"", "">>, <<"a", "b">> >>
GridC == << <<"c">> >>

\* A sheet of the fetched document: id is its position in the backing array
\* of doc.Sheets (the identity of the pointer &doc.Sheets[0]), Index and
\* Title are its Properties, Rows its cell values.
MkSheet(i, k) == [id |-> i, Index |-> i - 1, Title |-> k[1], Rows |-> k[2]]
\* The sheets a document is made of: a title and a grid of cell values.
SheetKinds == {<<"a", GridBlankAB>>, <<"Q&A", GridC>>}
Docs == UNION {{[i \in 1..m |-> MkSheet(i, f[i])] : f \in [1..m -> SheetKinds]} : m \in 0..MaxSheets}

Workers == 1..MaxWorkers

\* -client-secret (line 43) or $GOOGLE_CLIENT_SECRET (lines 82-84): the
\* JSON of a service account, or nothing when neither is set.
SecretJSON == "{\"type\": \"service_account\"}"
SecretNone == ""
ClientSecrets == {SecretJSON, SecretNone}

\* Grids for the encoder on its own: up to MaxRows rows of up to two cells,
\* a cell empty, plain, or holding the delimiter.
Cells == {"", "a", "b", "x,y"}
Records == UNION {[1..n -> Cells] : n \in 0..2}
RowSets == UNION {[1..n -> Records] : n \in 0..MaxRows}
\* Grids for the encoder writing to a file: a cell can be as large as the
\* writer's buffer, so that the buffer fills before the last row.
Double(s) == s \o s
BigCell == Double(Double(Double(Double(Double(Double(Double(Double("aaaaaaaaaaaaaaaa"))))))))
FileCells == {"", "a", BigCell}
FileRecords == UNION {[1..n -> FileCells] : n \in 0..2}
FileRowSets == UNION {[1..n -> FileRecords] : n \in 0..MaxRows}
\* os.Create (line 625) succeeds or fails.
CreateErrs == {Nil, "permission denied"}
\* What the buffer handed to makeCSV may hold from an earlier use.
OldBufs == {"", "stale\n"}
\* Errors handed to deferClose.
EarlierErrs == {Nil, "short write"}
CloseErrs == {Nil, "disk full"}

VARIABLES c, pc, ret, cancelled, signalled, store, doc, sheets, dir,
          waitingOn, wpc, ws, sb, buf, h, attrs, werr, wret,
          handed, results, recvErrs, changed,
          run, prev, dist, invalidations, arg, res

vars == <<c, pc, ret, cancelled, signalled, store, doc, sheets, dir,
          waitingOn, wpc, ws, sb, buf, h, attrs, werr, wret,
          handed, results, recvErrs, changed,
          run, prev, dist, invalidations, arg, res>>

\* What no step of Exec or of its workers changes: the number of the run,
\* the document the run before fetched,
\* the CDN distribution and the invalidations made, and the argument and
\* result of a function applied on its own.
otherVars == <<run, prev, dist, invalidations, arg, res>>

\* ------------------------------------------------------ pure functions

\* html/template escapes the text a {{...}} action produces; of the input
\* strings only "Q&A" holds a character it rewrites.
EscapeHTML(str) == IF str = "Q&A" THEN "Q&amp;A" ELSE str

\* template.Parse (lines 106-113): "nil" or a parse error.
Parse(tmpl) == IF tmpl \in {FtUnparsable, PtUnparsable} THEN "ParseError" ELSE Nil

\* ft.Execute(sb, s) (line 201): the text appended to the writer and the
\* error.  Output is written as execution proceeds, so a failing template
\* leaves the text of the actions before the failing one.
ExecuteFile(tmpl, sheet) ==
    CASE tmpl = FtDefault ->
           [out |-> ToString(sheet.Index) \o " " \o EscapeHTML(sheet.Title) \o ".csv", err |-> Nil]
      [] tmpl = FtTitle -> [out |-> EscapeHTML(sheet.Title) \o ".csv", err |-> Nil]
      [] tmpl = FtConst -> [out |-> "data.csv", err |-> Nil]
      [] OTHER -> [out |-> EscapeHTML(sheet.Title), err |-> "TemplateError"]

\* google.JWTConfigFromJSON (line 126): the error for a secret that is not
\* the JSON of a service account.
JWTConfigFromJSON(secret) == IF secret = SecretJSON THEN Nil ELSE "unexpected end of JSON input"

\* pt.Execute(&dirBuf, doc) (line 141).
ExecutePath(tmpl, title) ==
    IF tmpl = PtDefault THEN [out |-> EscapeHTML(title), err |-> Nil]
    ELSE [out |-> "", err |-> "TemplateError"]

\* path.Join(dir, file) (line 210), for elements without "/" or "." parts:
\* empty elements are ignored, the others joined by one slash.
Join(d, f) ==
    IF d = "" THEN f
    ELSE IF f = "" THEN d
    ELSE d \o "/" \o f

\* blank that looks at the first cell only.
blankFirstCell(record) == Len(record) = 0 \/ record[1] = ""

\* blank (lines 255-262).
blank(record) == \A i \in 1..Len(record) : record[i] = ""

\* csv.Writer's field: quoted when it holds the delimiter ("x,y" is the one
\* such input), written as it is otherwise.
Field(f) == IF f = "x,y" THEN "\"x,y\"" ELSE f

RECURSIVE JoinFields(_, _)
JoinFields(record, i) ==
    IF i > Len(record) THEN ""
    ELSE (IF i > 1 THEN "," ELSE "") \o Field(record[i]) \o JoinFields(record, i + 1)

\* csv.Writer.Write(record) (line 247): the record and its line ending.
WriteRecord(record, useCRLF) ==
    JoinFields(record, 1) \o (IF useCRLF THEN "\r\n" ELSE "\n")

\* strings.Builder.Reset, bytes.Buffer.Reset and hash.Hash.Reset (lines
\* 200, 233, 215): whatever was written before is discarded.
Reset(old) == ""

\* deferClose that lets the later error replace an earlier one.
deferCloseOverwrite(err, newErr) ==
    IF newErr # Nil THEN "problem closing: " \o newErr ELSE err

\* deferClose (lines 264-269): the error after the deferred call.
deferClose(err, newErr) ==
    IF err = Nil /\ newErr # Nil THEN "problem closing: " \o newErr ELSE err

\* The loop of makeCSV (lines 239-251) from row i on.
RECURSIVE EncodeRows(_, _, _)
EncodeRows(rows, i, useCRLF) ==
    IF i > Len(rows) THEN ""
    ELSE IF blank(rows[i]) THEN EncodeRows(rows, i + 1, useCRLF)
    ELSE WriteRecord(rows[i], useCRLF) \o EncodeRows(rows, i + 1, useCRLF)

\* makeCSV (lines 232-253): buf.Reset(), the records written, w.Error
\* through deferClose, then the flush.  Writes to a bytes.Buffer return no
\* error, so w.Error() is nil.
makeCSV(oldbuf, rows, useCRLF) ==
    [buf |-> Reset(oldbuf) \o EncodeRows(rows, 1, useCRLF), err |-> deferClose(Nil, Nil)]

\* ------------------------------------------- makeCSV writing to a file
\* csv.NewWriter(f) (line 631) wraps f in a bufio.Writer with a buffer of
\* BufSize bytes.  The writer is followed by byte counts: n bytes in the
\* buffer, calls made to f.Write, sunk bytes f has taken, and err, the
\* first error of f.Write, which the writer keeps.  The file takes the
\* first okWrites writes whole and fails the next one, taking nothing.
BufSize == 4096
NewWriter == [n |-> 0, calls |-> 0, sunk |-> 0, err |-> Nil]

\* bufio.Writer.Flush: the buffered bytes go to f in one write; nothing is
\* written when the buffer is empty or an earlier write failed.
Flush(w, okWrites) ==
    IF w.err # Nil \/ w.n = 0 THEN w
    ELSE IF w.calls < okWrites
    THEN [w EXCEPT !.n = 0, !.calls = @ + 1, !.sunk = @ + w.n]
    ELSE [w EXCEPT !.calls = @ + 1, !.err = "write failed"]

\* len bytes written through the bufio.Writer: they are copied into the
\* buffer, which is flushed each time it is full and more bytes follow.
RECURSIVE WriteBytes(_, _, _)
WriteBytes(w, len, okWrites) ==
    IF w.err # Nil \/ len = 0 THEN w
    ELSE IF w.n = BufSize THEN WriteBytes(Flush(w, okWrites), len, okWrites)
    ELSE LET k == IF len < BufSize - w.n THEN len ELSE BufSize - w.n
         IN WriteBytes([w EXCEPT !.n = @ + k], len - k, okWrites)

\* The loop of makeCSV (lines 636-648) from row i on: w.Write(record)
\* returns the writer's error, and the loop returns on it.
RECURSIVE WriteRows(_, _, _, _, _)
WriteRows(w, rows, i, useCRLF, okWrites) ==
    IF i > Len(rows) THEN w
    ELSE IF blank(rows[i]) THEN WriteRows(w, rows, i + 1, useCRLF, okWrites)
    ELSE LET w2 == WriteBytes(w, Len(WriteRecord(rows[i], useCRLF)), okWrites)
         IN IF w2.err # Nil THEN w2
            ELSE WriteRows(w2, rows, i + 1, useCRLF, okWrites)

\* makeCSV of lines 622-650.  The deferred calls run last registered
\* first: deferClose(&err, w.Error) (line 634), then w.Flush() (line 633),
\* then deferClose(&err, f.Close) (line 629).  w.Error() is therefore read
\* before the flush, and Flush returns nothing.  failed: some f.Write failed.
makeCSVFile(rows, useCRLF, createErr, okWrites, closeErr) ==
    IF createErr # Nil
    THEN [err |-> createErr, sunk |-> 0, failed |-> FALSE]
    ELSE LET w == WriteRows(NewWriter, rows, 1, useCRLF, okWrites)
             err1 == deferClose(w.err, w.err)
             flushed == Flush(w, okWrites)
             err2 == deferClose(err1, closeErr)
         IN [err |-> err2, sunk |-> flushed.sunk, failed |-> flushed.err # Nil]

\* md5: h.Reset(), h.Write(b), h.Sum(nil) (lines 215-219).  The digest is a
\* many-to-one function of the bytes written since the reset, modelled by
\* their number: equal bytes give equal digests, equal digests need not
\* come from equal bytes.
Sum(written) == <<Len(written)>>

\* Bucket.Attributes(ctx, fullpath) (line 212): what a lookup can return.
\* A missing object is an error; an object can be reported with or without
\* its MD5, or the lookup fails (network, cancelled context).
AttributesResults(st, fullpath) ==
    {[err |-> "LookupError", MD5 |-> NoMD5]} \cup
    (IF fullpath \in DOMAIN st
     THEN {[err |-> Nil, MD5 |-> NoMD5], [err |-> Nil, MD5 |-> Sum(st[fullpath])]}
     ELSE {})

\* ShouldSkip without the comparison of line 219: any reported MD5 skips.
ShouldSkipNoCompare(a, sum) == a.err = Nil /\ a.MD5 # NoMD5

\* The test of lines 213 and 219: skip when the lookup succeeded, reported
\* an MD5 and the MD5 of the buffer equals it.
ShouldSkip(a, sum) == a.err = Nil /\ a.MD5 # NoMD5 /\ sum = a.MD5

\* A WriteAll that stores nothing under the path.
PutEmpty(st, fullpath, data) ==
    [p \in DOMAIN st \cup {fullpath} |-> IF p = fullpath THEN "" ELSE st[p]]

\* The bucket after WriteAll (line 226) stored data at fullpath.
Put(st, fullpath, data) ==
    [p \in DOMAIN st \cup {fullpath} |-> IF p = fullpath THEN data ELSE st[p]]

\* fullpath (line 210) of the sheet worker w is uploading.
FullPath(w) == Join(dir, sb[w])

\* ------------------------------------------------------------- errors
\* An error value: its kind and the sheet (0: none) whose upload made it.
NoErr == [kind |-> Nil, sheet |-> 0]
Err(kind, id) == [kind |-> kind, sheet |-> id]
\* The worker has made no lookup for the sheet it holds.
NoAttrs == [err |-> "no lookup", MD5 |-> NoMD5]
\* No CDN distribution configured; no function applied on its own.
NoDist == ""
NoArg == [fn |-> "none"]
NoRes == [done |-> FALSE, out |-> "", err |-> Nil]

\* ------------------------------------------------------------ the run
\* The configuration FromArgs hands to Exec: any worker count, path and
\* file template of the input sets; -crlf is left at its default (line 53).
Configs == [NWorkers : -1..MaxWorkers, PathTemplate : PathTemplates,
            FileTemplate : FileTemplates, UseCRLF : {FALSE},
            ClientSecret : ClientSecrets]

\* Exec has not begun: nothing fetched, no worker started, an empty bucket.
NotStarted ==
    /\ pc = "start"
    /\ ret = NoErr
    /\ cancelled = FALSE
    /\ signalled = FALSE
    /\ store = <<>>
    /\ doc = <<>>
    /\ sheets = <<>>
    /\ dir = ""
    /\ waitingOn = 0
    /\ wpc = [w \in Workers |-> "none"]
    /\ ws = [w \in Workers |-> 0]
    /\ sb = [w \in Workers |-> ""]
    /\ buf = [w \in Workers |-> ""]
    /\ h = [w \in Workers |-> ""]
    /\ attrs = [w \in Workers |-> NoAttrs]
    /\ werr = [w \in Workers |-> NoErr]
    /\ wret = [w \in Workers |-> "none"]
    /\ handed = <<>>
    /\ results = [i \in 1..MaxSheets |-> 0]
    /\ recvErrs = <<>>
    /\ changed = {}
    /\ run = 1
    /\ prev = <<>>
    /\ invalidations = <<>>

Init ==
    /\ c \in Configs
    /\ NotStarted
    /\ dist = NoDist
    /\ arg = NoArg
    /\ res = NoRes

poolVars == <<waitingOn, wpc, ws, sb, buf, h, attrs, werr, wret, handed, results, recvErrs>>

\* A return of Exec with err after line 116: the deferred cancel() runs.
Return(err) ==
    /\ pc' = "done"
    /\ ret' = err
    /\ cancelled' = TRUE

\* CheckWorkers with the test c.NWorkers < 0: a count of zero passes.
CheckWorkersOffByOne ==
    /\ pc = "start"
    /\ IF c.NWorkers < 0
       THEN /\ pc' = "done"
            /\ ret' = Err("invalid number of workers", 0)
       ELSE /\ pc' = "parse"
            /\ ret' = ret
    /\ UNCHANGED <<c, otherVars, changed, cancelled, signalled, store, doc, sheets, dir, poolVars>>

\* Lines 102-104: the worker count is checked first.
CheckWorkers ==
    /\ pc = "start"
    /\ IF c.NWorkers < 1
       THEN /\ pc' = "done"
            /\ ret' = Err("invalid number of workers", 0)
       ELSE /\ pc' = "parse"
            /\ ret' = ret
    /\ UNCHANGED <<c, otherVars, changed, cancelled, signalled, store, doc, sheets, dir, poolVars>>

\* Lines 106-116: both templates are parsed, then the context is made.
ParseTemplates ==
    /\ pc = "parse"
    /\ IF Parse(c.PathTemplate) # Nil
       THEN /\ pc' = "done"
            /\ ret' = Err("path template problem", 0)
       ELSE IF Parse(c.FileTemplate) # Nil
       THEN /\ pc' = "done"
            /\ ret' = Err("file path template problem", 0)
       ELSE /\ pc' = "open"
            /\ ret' = ret
    /\ UNCHANGED <<c, otherVars, changed, cancelled, signalled, store, doc, sheets, dir, poolVars>>

\* Lines 118-122: blob.OpenBucket succeeds or fails.
OpenBucket ==
    /\ pc = "open"
    /\ \/ /\ pc' = "fetch"
          /\ UNCHANGED <<ret, cancelled>>
       \/ Return(Err("could not open bucket", 0))
    /\ UNCHANGED <<c, otherVars, changed, signalled, store, doc, sheets, dir, poolVars>>

\* Lines 124-138: the credentials are parsed, and with good credentials
\* FetchSpreadsheet returns any document of the input set or fails.
Fetch ==
    /\ pc = "fetch"
    /\ IF JWTConfigFromJSON(c.ClientSecret) # Nil
       THEN /\ Return(Err("could not parse credentials", 0))
            /\ UNCHANGED <<doc, sheets>>
       ELSE \/ /\ \E d \in Docs : doc' = d /\ sheets' = d
               /\ pc' = "dir"
               /\ UNCHANGED <<ret, cancelled>>
            \/ /\ Return(Err("failure getting Google Sheet", 0))
               /\ UNCHANGED <<doc, sheets>>
    /\ UNCHANGED <<c, otherVars, changed, signalled, store, dir, poolVars>>

\* Lines 140-144: the directory is rendered from the document.
RenderDir ==
    /\ pc = "dir"
    /\ LET r == ExecutePath(c.PathTemplate, DocTitle)
       IN IF r.err # Nil
          THEN /\ Return(Err("could not use path template", 0))
               /\ dir' = dir
          ELSE /\ dir' = r.out
               /\ pc' = "spawn"
               /\ UNCHANGED <<ret, cancelled>>
    /\ UNCHANGED <<c, otherVars, changed, signalled, store, doc, sheets, poolVars>>

\* Lines 156-176: NWorkers goroutines are started; each waits in its select.
Spawn ==
    /\ pc = "spawn"
    /\ wpc' = [w \in Workers |-> IF w <= c.NWorkers THEN "idle" ELSE "none"]
    /\ pc' = "loop"
    /\ UNCHANGED <<c, otherVars, changed, ret, cancelled, signalled, store, doc, sheets, dir,
                   waitingOn, ws, sb, buf, h, attrs, werr, wret, handed, results, recvErrs>>

\* ctxsignal.WithTermination (line 115): a termination signal closes
\* ctx.Done() at any time while Exec runs with the context.
Signal ==
    /\ pc \in {"open", "fetch", "dir", "spawn", "loop"}
    /\ ~cancelled
    /\ cancelled' = TRUE
    /\ signalled' = TRUE
    /\ UNCHANGED <<c, otherVars, changed, pc, ret, store, doc, sheets, dir, poolVars>>

\* HandOff without waitingOn++ (line 187).
HandOffNoCount(w) ==
    /\ pc = "loop"
    /\ Len(sheets) > 0
    /\ wpc[w] = "idle"
    /\ sheets' = Tail(sheets)
    /\ ws' = [ws EXCEPT ![w] = Head(sheets).id]
    /\ wpc' = [wpc EXCEPT ![w] = "upload"]
    /\ handed' = Append(handed, Head(sheets).id)
    /\ UNCHANGED <<c, otherVars, changed, pc, ret, cancelled, signalled, store, doc, dir, waitingOn,
                   sb, buf, h, attrs, werr, wret, results, recvErrs>>

\* HandOff without doc.Sheets = doc.Sheets[1:] (line 188).
HandOffNoPop(w) ==
    /\ pc = "loop"
    /\ Len(sheets) > 0
    /\ wpc[w] = "idle"
    /\ waitingOn' = waitingOn + 1
    /\ ws' = [ws EXCEPT ![w] = Head(sheets).id]
    /\ wpc' = [wpc EXCEPT ![w] = "upload"]
    /\ handed' = Append(handed, Head(sheets).id)
    /\ UNCHANGED <<c, otherVars, changed, pc, ret, cancelled, signalled, store, doc, sheets, dir,
                   sb, buf, h, attrs, werr, wret, results, recvErrs>>

\* HandOff that takes the last remaining sheet instead of the first.
HandOffLast(w) ==
    /\ pc = "loop"
    /\ Len(sheets) > 0
    /\ wpc[w] = "idle"
    /\ waitingOn' = waitingOn + 1
    /\ sheets' = SubSeq(sheets, 1, Len(sheets) - 1)
    /\ ws' = [ws EXCEPT ![w] = sheets[Len(sheets)].id]
    /\ wpc' = [wpc EXCEPT ![w] = "upload"]
    /\ handed' = Append(handed, sheets[Len(sheets)].id)
    /\ UNCHANGED <<c, otherVars, changed, pc, ret, cancelled, signalled, store, doc, dir,
                   sb, buf, h, attrs, werr, wret, results, recvErrs>>

\* Lines 186-188 with line 165: the dispatch loop sends the first remaining
\* sheet on sheetCh and worker w, waiting in its select, receives it.  The
\* worker's select may choose this case also when ctx.Done() is closed.
HandOff(w) ==
    /\ pc = "loop"
    /\ Len(sheets) > 0
    /\ wpc[w] = "idle"
    /\ waitingOn' = waitingOn + 1
    /\ sheets' = Tail(sheets)
    /\ ws' = [ws EXCEPT ![w] = Head(sheets).id]
    /\ wpc' = [wpc EXCEPT ![w] = "upload"]
    /\ handed' = Append(handed, Head(sheets).id)
    /\ UNCHANGED <<c, otherVars, changed, pc, ret, cancelled, signalled, store, doc, dir,
                   sb, buf, h, attrs, werr, wret, results, recvErrs>>

\* uploadSheet that looks the path up before it tests the render error.
UploadLookupFirst(w) ==
    /\ wpc[w] = "upload"
    /\ LET s == doc[ws[w]]
           r == ExecuteFile(c.FileTemplate, s)
           m == makeCSV(buf[w], s.Rows, c.UseCRLF)
           file == Reset(sb[w]) \o r.out
           fullpath == Join(dir, file)
           written == Reset(h[w]) \o m.buf
       IN /\ sb' = [sb EXCEPT ![w] = file]
          /\ \E a \in AttributesResults(store, fullpath) :
               /\ attrs' = [attrs EXCEPT ![w] = a]
               /\ IF r.err # Nil
                  THEN /\ werr' = [werr EXCEPT ![w] = Err("could not use file path template", s.id)]
                       /\ wret' = [wret EXCEPT ![w] = "render"]
                       /\ wpc' = [wpc EXCEPT ![w] = "send"]
                       /\ UNCHANGED <<buf, h>>
                  ELSE /\ buf' = [buf EXCEPT ![w] = m.buf]
                       /\ h' = IF a.err = Nil /\ a.MD5 # NoMD5
                               THEN [h EXCEPT ![w] = written] ELSE h
                       /\ IF ShouldSkip(a, Sum(written))
                          THEN /\ wret' = [wret EXCEPT ![w] = "skip"]
                               /\ wpc' = [wpc EXCEPT ![w] = "send"]
                          ELSE /\ wret' = [wret EXCEPT ![w] = "write"]
                               /\ wpc' = [wpc EXCEPT ![w] = "write"]
                       /\ werr' = [werr EXCEPT ![w] = NoErr]
    /\ UNCHANGED <<c, otherVars, changed, pc, ret, cancelled, signalled, store, doc, sheets, dir,
                   waitingOn, ws, handed, results, recvErrs>>

\* uploadSheet without h.Reset() (line 215): the hash goes on from the
\* bytes it was given for an earlier sheet.
UploadNoHashReset(w) ==
    /\ wpc[w] = "upload"
    /\ LET s == doc[ws[w]]
           r == ExecuteFile(c.FileTemplate, s)
           m == makeCSV(buf[w], s.Rows, c.UseCRLF)
           file == Reset(sb[w]) \o r.out
           fullpath == Join(dir, file)
           written == h[w] \o m.buf
       IN /\ sb' = [sb EXCEPT ![w] = file]
          /\ IF r.err # Nil
             THEN /\ werr' = [werr EXCEPT ![w] = Err("could not use file path template", s.id)]
                  /\ wret' = [wret EXCEPT ![w] = "render"]
                  /\ wpc' = [wpc EXCEPT ![w] = "send"]
                  /\ UNCHANGED <<buf, h, attrs>>
             ELSE IF m.err # Nil
             THEN /\ buf' = [buf EXCEPT ![w] = m.buf]
                  /\ werr' = [werr EXCEPT ![w] = Err(m.err, s.id)]
                  /\ wret' = [wret EXCEPT ![w] = "csv"]
                  /\ wpc' = [wpc EXCEPT ![w] = "send"]
                  /\ UNCHANGED <<h, attrs>>
             ELSE /\ buf' = [buf EXCEPT ![w] = m.buf]
                  /\ \E a \in AttributesResults(store, fullpath) :
                       /\ attrs' = [attrs EXCEPT ![w] = a]
                       /\ h' = IF a.err = Nil /\ a.MD5 # NoMD5
                               THEN [h EXCEPT ![w] = written] ELSE h
                       /\ IF ShouldSkip(a, Sum(written))
                          THEN /\ wret' = [wret EXCEPT ![w] = "skip"]
                               /\ wpc' = [wpc EXCEPT ![w] = "send"]
                          ELSE /\ wret' = [wret EXCEPT ![w] = "write"]
                               /\ wpc' = [wpc EXCEPT ![w] = "write"]
                  /\ werr' = [werr EXCEPT ![w] = NoErr]
    /\ UNCHANGED <<c, otherVars, changed, pc, ret, cancelled, signalled, store, doc, sheets, dir,
                   waitingOn, ws, handed, results, recvErrs>>

\* uploadSheet up to the decision to skip or write (lines 200-225).
Upload(w) ==
    /\ wpc[w] = "upload"
    /\ LET s == doc[ws[w]]
           r == ExecuteFile(c.FileTemplate, s)
           m == makeCSV(buf[w], s.Rows, c.UseCRLF)
           file == Reset(sb[w]) \o r.out
           fullpath == Join(dir, file)
           written == Reset(h[w]) \o m.buf
       IN /\ sb' = [sb EXCEPT ![w] = file]
          /\ IF r.err # Nil
             THEN /\ werr' = [werr EXCEPT ![w] = Err("could not use file path template", s.id)]
                  /\ wret' = [wret EXCEPT ![w] = "render"]
                  /\ wpc' = [wpc EXCEPT ![w] = "send"]
                  /\ UNCHANGED <<buf, h, attrs>>
             ELSE IF m.err # Nil
             THEN /\ buf' = [buf EXCEPT ![w] = m.buf]
                  /\ werr' = [werr EXCEPT ![w] = Err(m.err, s.id)]
                  /\ wret' = [wret EXCEPT ![w] = "csv"]
                  /\ wpc' = [wpc EXCEPT ![w] = "send"]
                  /\ UNCHANGED <<h, attrs>>
             ELSE /\ buf' = [buf EXCEPT ![w] = m.buf]
                  /\ \E a \in AttributesResults(store, fullpath) :
                       /\ attrs' = [attrs EXCEPT ![w] = a]
                       /\ h' = IF a.err = Nil /\ a.MD5 # NoMD5
                               THEN [h EXCEPT ![w] = written] ELSE h
                       /\ IF ShouldSkip(a, Sum(written))
                          THEN /\ wret' = [wret EXCEPT ![w] = "skip"]
                               /\ wpc' = [wpc EXCEPT ![w] = "send"]
                          ELSE /\ wret' = [wret EXCEPT ![w] = "write"]
                               /\ wpc' = [wpc EXCEPT ![w] = "write"]
                  /\ werr' = [werr EXCEPT ![w] = NoErr]
    /\ UNCHANGED <<c, otherVars, changed, pc, ret, cancelled, signalled, store, doc, sheets, dir,
                   waitingOn, ws, handed, results, recvErrs>>

\* b.WriteAll (lines 226-229) returns: the bytes are stored, or it fails.
WriteAll(w) ==
    /\ wpc[w] = "write"
    /\ \/ /\ store' = Put(store, Join(dir, sb[w]), buf[w])
          /\ werr' = [werr EXCEPT ![w] = NoErr]
          /\ wret' = [wret EXCEPT ![w] = "written"]
       \/ /\ store' = store
          /\ werr' = [werr EXCEPT ![w] = Err("WriteError", ws[w])]
          /\ wret' = [wret EXCEPT ![w] = "writefail"]
    /\ wpc' = [wpc EXCEPT ![w] = "send"]
    /\ attrs' = [attrs EXCEPT ![w] = NoAttrs]
    /\ UNCHANGED <<c, otherVars, changed, pc, ret, cancelled, signalled, doc, sheets, dir,
                   waitingOn, ws, sb, buf, h, handed, results, recvErrs>>

\* Receive without the test of lines 191-193: the error is dropped.
ReceiveIgnoreErr(w) ==
    /\ pc = "loop"
    /\ wpc[w] = "send"
    /\ waitingOn' = waitingOn - 1
    /\ results' = [results EXCEPT ![ws[w]] = @ + 1]
    /\ recvErrs' = IF werr[w] # NoErr THEN Append(recvErrs, werr[w]) ELSE recvErrs
    /\ wpc' = [wpc EXCEPT ![w] = "idle"]
    /\ ws' = [ws EXCEPT ![w] = 0]
    /\ werr' = [werr EXCEPT ![w] = NoErr]
    /\ wret' = [wret EXCEPT ![w] = "none"]
    /\ attrs' = [attrs EXCEPT ![w] = NoAttrs]
    /\ UNCHANGED <<pc, ret, cancelled>>
    /\ changed' = IF wret[w] = "written" THEN changed \cup {FullPath(w)} ELSE changed
    /\ UNCHANGED <<c, otherVars, signalled, store, doc, sheets, dir, sb, buf, h, handed>>

\* Receive that keeps the error and goes on receiving until no result is
\* awaited: the last error wins.
ReceiveKeepGoing(w) ==
    /\ pc = "loop"
    /\ wpc[w] = "send"
    /\ waitingOn' = waitingOn - 1
    /\ results' = [results EXCEPT ![ws[w]] = @ + 1]
    /\ recvErrs' = IF werr[w] # NoErr THEN Append(recvErrs, werr[w]) ELSE recvErrs
    /\ wpc' = [wpc EXCEPT ![w] = "idle"]
    /\ ws' = [ws EXCEPT ![w] = 0]
    /\ werr' = [werr EXCEPT ![w] = NoErr]
    /\ wret' = [wret EXCEPT ![w] = "none"]
    /\ attrs' = [attrs EXCEPT ![w] = NoAttrs]
    /\ IF werr[w] # NoErr /\ waitingOn = 1
       THEN Return(werr[w])
       ELSE /\ ret' = IF werr[w] # NoErr THEN werr[w] ELSE ret
            /\ UNCHANGED <<pc, cancelled>>
    /\ changed' = IF wret[w] = "written" THEN changed \cup {FullPath(w)} ELSE changed
    /\ UNCHANGED <<c, otherVars, signalled, store, doc, sheets, dir, sb, buf, h, handed>>

\* A loop that receives results only once every sheet is handed off (a
\* plain send on sheetCh in place of the select of line 185).
ReceiveAfterDispatch(w) ==
    /\ pc = "loop"
    /\ Len(sheets) = 0
    /\ wpc[w] = "send"
    /\ waitingOn' = waitingOn - 1
    /\ results' = [results EXCEPT ![ws[w]] = @ + 1]
    /\ recvErrs' = IF werr[w] # NoErr THEN Append(recvErrs, werr[w]) ELSE recvErrs
    /\ wpc' = [wpc EXCEPT ![w] = "idle"]
    /\ ws' = [ws EXCEPT ![w] = 0]
    /\ werr' = [werr EXCEPT ![w] = NoErr]
    /\ wret' = [wret EXCEPT ![w] = "none"]
    /\ attrs' = [attrs EXCEPT ![w] = NoAttrs]
    /\ IF werr[w] # NoErr
       THEN Return(werr[w])
       ELSE UNCHANGED <<pc, ret, cancelled>>
    /\ changed' = IF wret[w] = "written" THEN changed \cup {FullPath(w)} ELSE changed
    /\ UNCHANGED <<c, otherVars, signalled, store, doc, sheets, dir, sb, buf, h, handed>>

\* Lines 189-193 with line 169: worker w sends the result of uploadSheet on
\* errCh and the dispatch loop receives it; a non-nil error is returned.
Receive(w) ==
    /\ pc = "loop"
    /\ wpc[w] = "send"
    /\ waitingOn' = waitingOn - 1
    /\ results' = [results EXCEPT ![ws[w]] = @ + 1]
    /\ recvErrs' = IF werr[w] # NoErr THEN Append(recvErrs, werr[w]) ELSE recvErrs
    /\ wpc' = [wpc EXCEPT ![w] = "idle"]
    /\ ws' = [ws EXCEPT ![w] = 0]
    /\ werr' = [werr EXCEPT ![w] = NoErr]
    /\ wret' = [wret EXCEPT ![w] = "none"]
    /\ attrs' = [attrs EXCEPT ![w] = NoAttrs]
    /\ IF werr[w] # NoErr
       THEN Return(werr[w])
       ELSE UNCHANGED <<pc, ret, cancelled>>
    /\ changed' = IF wret[w] = "written" THEN changed \cup {FullPath(w)} ELSE changed
    /\ UNCHANGED <<c, otherVars, signalled, store, doc, sheets, dir, sb, buf, h, handed>>

\* LoopExit with the condition len(doc.Sheets) > 0 alone.
LoopExitEarly ==
    /\ pc = "loop"
    /\ ~(Len(sheets) > 0)
    /\ Return(NoErr)
    /\ UNCHANGED <<c, otherVars, changed, signalled, store, doc, sheets, dir, poolVars>>

\* Lines 177 and 196: the loop ends when no sheet remains and no result is
\* awaited, and Exec returns nil.
LoopExit ==
    /\ pc = "loop"
    /\ ~(Len(sheets) > 0 \/ waitingOn > 0)
    /\ Return(NoErr)
    /\ UNCHANGED <<c, otherVars, changed, signalled, store, doc, sheets, dir, poolVars>>

\* Lines 171-172: a worker waiting in its select sees ctx.Done() and returns.
WorkerExit(w) ==
    /\ wpc[w] = "idle"
    /\ cancelled
    /\ wpc' = [wpc EXCEPT ![w] = "exited"]
    /\ UNCHANGED <<c, otherVars, changed, pc, ret, cancelled, signalled, store, doc, sheets, dir,
                   waitingOn, ws, sb, buf, h, attrs, werr, wret, handed, results, recvErrs>>

\* The steps of the dispatch loop's select and of the workers.
PoolStep ==
    \/ \E w \in Workers : HandOff(w)
    \/ \E w \in Workers : Receive(w)
    \/ \E w \in Workers : Upload(w)
    \/ \E w \in Workers : WriteAll(w)

\* Every step of the program; Signal is the environment's.
Program ==
    \/ CheckWorkers
    \/ ParseTemplates
    \/ OpenBucket
    \/ Fetch
    \/ RenderDir
    \/ Spawn
    \/ LoopExit
    \/ \E w \in Workers : HandOff(w)
    \/ \E w \in Workers : Upload(w)
    \/ \E w \in Workers : WriteAll(w)
    \/ \E w \in Workers : Receive(w)
    \/ \E w \in Workers : WorkerExit(w)

Next == Program \/ Signal

Spec == Init /\ [][Next]_vars

\* The goroutines are scheduled fairly and store calls return: a program
\* step that stays possible is eventually taken.  Signals need not come.
FairSpec == Spec /\ WF_vars(Program)

\* ------------------------------------------------------ a second run
\* CLI (lines 29-39) is run again after a run that returned nil: a new
\* process with the same flags and the same bucket with what the earlier
\* run left in it.  Exec starts over at line 102; prev keeps the document
\* the earlier run fetched.
RerunFrom(at) ==
    /\ pc = at
    /\ ret = NoErr
    /\ run < MaxRuns
    /\ run' = run + 1
    /\ pc' = "start"
    /\ cancelled' = FALSE
    /\ signalled' = FALSE
    /\ prev' = doc
    /\ doc' = <<>>
    /\ sheets' = <<>>
    /\ dir' = ""
    /\ waitingOn' = 0
    /\ wpc' = [w \in Workers |-> "none"]
    /\ ws' = [w \in Workers |-> 0]
    /\ sb' = [w \in Workers |-> ""]
    /\ buf' = [w \in Workers |-> ""]
    /\ h' = [w \in Workers |-> ""]
    /\ attrs' = [w \in Workers |-> NoAttrs]
    /\ werr' = [w \in Workers |-> NoErr]
    /\ wret' = [w \in Workers |-> "none"]
    /\ handed' = <<>>
    /\ results' = [i \in 1..MaxSheets |-> 0]
    /\ recvErrs' = <<>>
    /\ changed' = {}
    /\ invalidations' = <<>>
    /\ UNCHANGED <<c, ret, store, dist, arg, res>>

Rerun == RerunFrom("done")

RerunNext == Next \/ Rerun

RerunSpec == Init /\ [][RerunNext]_vars

\* ------------------------------------------------- after the pipeline
\* The CloudFront invalidation the README lists (line 768) is not in the
\* source at hand; this part follows the description of the post-pipeline
\* notifier: the loop collects the full path of every written sheet
\* (changed, in Receive), and after a pipeline that returned nil one
\* invalidation request for all of them is made if there is any and a
\* distribution is configured.  The request can fail, and its failure is
\* the run's error.
Dists == {NoDist, "E2EXAMPLE"}

NotifyInit ==
    /\ c \in Configs
    /\ NotStarted
    /\ dist \in Dists
    /\ arg = NoArg
    /\ res = NoRes

\* A notifier that does not look at the list of changed paths.
PostPipelineAlways ==
    /\ pc = "done"
    /\ pc' = "exit"
    /\ IF ret = NoErr /\ dist # NoDist
       THEN /\ invalidations' = Append(invalidations, changed)
            /\ ret' \in {NoErr, Err("InvalidationError", 0)}
       ELSE UNCHANGED <<invalidations, ret>>
    /\ UNCHANGED <<c, cancelled, signalled, store, doc, sheets, dir, poolVars,
                   changed, run, prev, dist, arg, res>>

PostPipeline ==
    /\ pc = "done"
    /\ pc' = "exit"
    /\ IF ret = NoErr /\ changed # {} /\ dist # NoDist
       THEN /\ invalidations' = Append(invalidations, changed)
            /\ ret' \in {NoErr, Err("InvalidationError", 0)}
       ELSE UNCHANGED <<invalidations, ret>>
    /\ UNCHANGED <<c, cancelled, signalled, store, doc, sheets, dir, poolVars,
                   changed, run, prev, dist, arg, res>>

\* The program is run again after a run that ended without error.
NotifyRerun == RerunFrom("exit")

NotifyNext == Next \/ PostPipeline \/ NotifyRerun

NotifySpec == NotifyInit /\ [][NotifyNext]_vars

\* ------------------------------------------- functions on their own
\* makeCSV and deferClose applied to one argument, outside a run: the
\* flags as FromArgs sets them, -crlf either way.
FuncConfigs == [NWorkers : {10}, PathTemplate : {PtDefault},
                FileTemplate : {FtDefault}, UseCRLF : BOOLEAN,
                ClientSecret : {SecretNone}]
FuncArgs ==
    [fn : {"makeCSV"}, buf : OldBufs, rows : RowSets] \cup
    [fn : {"deferClose"}, err : EarlierErrs, newErr : CloseErrs] \cup
    [fn : {"makeCSVFile"}, rows : FileRowSets, createErr : CreateErrs,
     okWrites : 0..MaxOkWrites, closeErr : CloseErrs]

FuncInit ==
    /\ c \in FuncConfigs
    /\ NotStarted
    /\ dist = NoDist
    /\ arg \in FuncArgs
    /\ res = NoRes

\* c.makeCSV(buf, rows) (lines 232-253) returns.
ApplyMakeCSV ==
    /\ arg.fn = "makeCSV"
    /\ ~res.done
    /\ LET m == makeCSV(arg.buf, arg.rows, c.UseCRLF)
       IN res' = [done |-> TRUE, out |-> m.buf, err |-> m.err]
    /\ UNCHANGED <<c, pc, ret, cancelled, signalled, store, doc, sheets, dir,
                   poolVars, changed, run, prev, dist, invalidations, arg>>

\* deferClose(&err, f) (lines 264-269) returns, f having returned newErr.
ApplyDeferClose ==
    /\ arg.fn = "deferClose"
    /\ ~res.done
    /\ res' = [done |-> TRUE, out |-> "", err |-> deferClose(arg.err, arg.newErr)]
    /\ UNCHANGED <<c, pc, ret, cancelled, signalled, store, doc, sheets, dir,
                   poolVars, changed, run, prev, dist, invalidations, arg>>

\* c.makeCSV(dir, file, rows) (lines 622-650) returns.
ApplyMakeCSVFile ==
    /\ arg.fn = "makeCSVFile"
    /\ ~res.done
    /\ LET m == makeCSVFile(arg.rows, c.UseCRLF, arg.createErr, arg.okWrites, arg.closeErr)
       IN res' = [done |-> TRUE, out |-> "", err |-> m.err,
                  sunk |-> m.sunk, failed |-> m.failed]
    /\ UNCHANGED <<c, pc, ret, cancelled, signalled, store, doc, sheets, dir,
                   poolVars, changed, run, prev, dist, invalidations, arg>>

FuncNext == ApplyMakeCSV \/ ApplyDeferClose \/ ApplyMakeCSVFile

FuncSpec == FuncInit /\ [][FuncNext]_vars

\* ------------------------------------------------------------ helpers
RECURSIVE SumTo(_, _)
SumTo(f, n) == IF n = 0 THEN 0 ELSE f[n] + SumTo(f, n - 1)

\* Results the dispatch loop has received, hand-offs of sheet i.
NReceived == SumTo(results, MaxSheets)
Count(seq, x) == Cardinality({k \in 1..Len(seq) : seq[k] = x})
Started == {w \in Workers : wpc[w] # "none"}
Completed == pc = "done" /\ ret = NoErr
\* uploadSheet returned an error in some worker, or the loop received one.
UploadFailed == recvErrs # <<>> \/ \E w \in Workers : werr[w] # NoErr
UploadErrKinds == {"could not use file path template", "WriteError"}
PathOf(i) == Join(dir, ExecuteFile(c.FileTemplate, doc[i]).out)

\* A row with a non-empty cell; the line ending; records one after another.
NonBlank(record) == \E k \in 1..Len(record) : record[k] # ""
EOL(useCRLF) == IF useCRLF THEN "\r\n" ELSE "\n"
RECURSIVE ConcatRecords(_, _, _)
ConcatRecords(records, k, useCRLF) ==
    IF k > Len(records) THEN ""
    ELSE JoinFields(records[k], 1) \o EOL(useCRLF) \o ConcatRecords(records, k + 1, useCRLF)

\* ------------------------------------------------------------- claims

\* C1: once the pool runs, unless an upload fails or the termination signal
\* fires, the dispatch loop eventually returns nil having received exactly
\* one result per sheet of the document.
C1_CompletesWithAllResults ==
    (pc = "loop") ~> (signalled \/ UploadFailed \/ (Completed /\ NReceived = Len(doc)))

C1_Witness ==
    /\ Completed /\ ~signalled /\ c.NWorkers = 2
    /\ Len(doc) = 2 /\ NReceived = 2

\* C2: a sheet is handed off at most once; a sheet handed off is held by
\* exactly one worker until that worker's result for it is received, and
\* has exactly one result afterwards; a run that returns nil has handed off
\* every sheet exactly once and received exactly one result for each.
C2_OneHandOffOneResult ==
    /\ \A i \in 1..Len(doc) :
         /\ Count(handed, i) <= 1
         /\ LET holders == {w \in Workers : ws[w] = i}
            IN IF Count(handed, i) = 0
               THEN holders = {} /\ results[i] = 0
               ELSE \/ Cardinality(holders) = 1 /\ results[i] = 0
                    \/ holders = {} /\ results[i] = 1
    /\ Completed => \A i \in 1..Len(doc) : Count(handed, i) = 1 /\ results[i] = 1

C2_Witness ==
    /\ Completed /\ Len(doc) = 2 /\ c.NWorkers = 2
    /\ handed = <<1, 2>> /\ results[1] = 1 /\ results[2] = 1

\* C3: once an upload has failed in a worker, the run eventually returns,
\* and returns the error of a failed sheet upload that the loop received.
C3_FailureReturnsError ==
    (\E w \in Workers : werr[w] # NoErr)
      ~> (/\ pc = "done"
          /\ ret.kind \in UploadErrKinds
          /\ ret.sheet \in 1..Len(doc)
          /\ recvErrs # <<>> /\ ret = recvErrs[1])

C3_Witness ==
    /\ pc = "done" /\ ~signalled /\ Len(doc) = 2
    /\ ret = Err("WriteError", 2)
    /\ results[1] = 1

\* C4 (as claimed): once the termination signal has fired, Exec eventually
\* returns.
C4_SignalLeadsToReturn == signalled ~> (pc = "done")

\* C5 (as claimed): once ctx.Done() is closed, no step hands off a sheet.
C5_NoHandOffAfterCancel == [][cancelled => handed' = handed]_vars

\* C6 (as claimed): once ctx.Done() is closed, every started worker
\* eventually exits.
C6_WorkersExitAfterCancel ==
    cancelled ~> (\A w \in Workers : wpc[w] \in {"none", "exited"})

\* C7: the loop receives at most one non-nil result; Exec has then returned
\* exactly that error; an upload error returned is the one received; and
\* after it no step hands off a sheet or receives a result.
C7_FirstErrorWins ==
    /\ [](/\ Len(recvErrs) <= 1
          /\ recvErrs # <<>> => (pc = "done" /\ ret = recvErrs[1])
          /\ (pc = "done" /\ ret.sheet # 0) => recvErrs = <<ret>>)
    /\ [][recvErrs # <<>> => (handed' = handed /\ results' = results /\ ret' = ret)]_vars

C7_Witness ==
    /\ pc = "done" /\ recvErrs = <<ret>> /\ ret.sheet = 1
    /\ \E w \in Workers : wpc[w] = "send" /\ werr[w] # NoErr /\ werr[w] # ret

\* C8: a worker that took the skip return had a successful lookup reporting
\* an MD5 equal to the MD5 of its payload, and returns nil; a worker whose
\* lookup failed, reported no MD5 or another MD5 is in WriteAll; no worker's
\* error is the lookup's.
C8_SkipIffChecksumMatches ==
    \A w \in Workers :
       LET match == attrs[w].err = Nil /\ attrs[w].MD5 # NoMD5 /\ attrs[w].MD5 = Sum(buf[w])
       IN /\ wret[w] = "skip" => (match /\ werr[w] = NoErr /\ wpc[w] = "send")
          /\ wret[w] = "write" => (~match /\ wpc[w] = "write")
          /\ wret[w] \in {"skip", "write"} => buf[w] = makeCSV("", doc[ws[w]].Rows, c.UseCRLF).buf
          /\ werr[w].kind \notin {"LookupError"}

C8_Witness ==
    \E w \in Workers :
       /\ wret[w] = "skip" /\ wpc[w] = "send"
       /\ attrs[w].MD5 = Sum(buf[w]) /\ FullPath(w) \in DOMAIN store

\* C9: with NWorkers < 1 Exec returns the worker-count error at once: it is
\* at its start or has returned that error, no worker was started, no sheet
\* handed off, no bucket opened and no document fetched.
C9_BadWorkerCountRejected ==
    c.NWorkers < 1 =>
       /\ pc \in {"start", "done"}
       /\ pc = "done" => ret = Err("invalid number of workers", 0)
       /\ Started = {} /\ handed = <<>>
       /\ doc = <<>> /\ store = <<>> /\ ~cancelled

C9_Witness == c.NWorkers = 0 /\ pc = "done" /\ ret.kind = "invalid number of workers"

\* C10 (as claimed): no two workers are in WriteAll with the same full path.
C10_NoConcurrentSamePath ==
    \A w1, w2 \in Workers :
       (w1 # w2 /\ wpc[w1] = "write" /\ wpc[w2] = "write") => FullPath(w1) # FullPath(w2)

\* C10 (amended): when the file template renders different full paths for
\* the different sheets of the document, no two workers are in WriteAll
\* with the same full path.
C10_DistinctPathsNoConcurrentWrite ==
    (\A i, j \in 1..Len(doc) : i # j => PathOf(i) # PathOf(j)) => C10_NoConcurrentSamePath

C10_Witness ==
    /\ \A i, j \in 1..Len(doc) : i # j => PathOf(i) # PathOf(j)
    /\ wpc[1] = "write" /\ wpc[2] = "write"

\* C11: makeCSV returns nil and exactly the records of the rows that have
\* a non-empty cell, in their order, each with its line ending: a row of
\* empty cells or of no cells gives no record, the grid [["",""],["a","b"]]
\* gives the one record a,b, and a grid without blank rows gives one
\* record per row.
C11_EncodesNonBlankRowsInOrder ==
    (res.done /\ arg.fn = "makeCSV") =>
       /\ res.err = Nil
       /\ res.out = ConcatRecords(SelectSeq(arg.rows, NonBlank), 1, c.UseCRLF)
       /\ arg.rows = GridBlankAB => res.out = "a,b" \o EOL(c.UseCRLF)
       /\ (\A k \in 1..Len(arg.rows) : ~NonBlank(arg.rows[k])) => res.out = ""

C11_Witness ==
    /\ res.done /\ arg.fn = "makeCSV" /\ arg.buf = "stale\n"
    /\ arg.rows = GridBlankAB /\ ~c.UseCRLF /\ res.out = "a,b\n"

\* C20: after deferClose the error is the release failure (wrapped) when
\* the release failed and no error was recorded; a recorded error stays as
\* it was; and a successful release leaves the error as it was.
C20_DeferCloseKeepsFirstError ==
    (res.done /\ arg.fn = "deferClose") =>
       /\ (arg.err = Nil /\ arg.newErr # Nil) =>
             (res.err # Nil /\ res.err = "problem closing: " \o arg.newErr)
       /\ arg.err # Nil => res.err = arg.err
       /\ arg.newErr = Nil => res.err = arg.err

C20_Witness ==
    /\ res.done /\ arg.fn = "deferClose"
    /\ arg.err = Nil /\ arg.newErr = "disk full" /\ res.err = "problem closing: disk full"

\* In a run after the first that fetched the document of the run before
\* and started its workers, a worker is in WriteAll only after a lookup
\* that failed or reported no checksum, and the run returns no error other
\* than that of such a write.
RerunWritesNothing ==
    (run >= 2 /\ Started # {} /\ doc = prev) =>
       /\ \A w \in Workers :
            wpc[w] = "write" => ~(attrs[w].err = Nil /\ attrs[w].MD5 # NoMD5)
       /\ (pc = "done" /\ ret # NoErr) => ret.kind = "WriteError"

\* C12 (as claimed): after a run that returned nil, a second run on the
\* same document with the same configuration makes no store write whenever
\* the store reports the checksum of what it holds, and does not fail.
C12_RerunWritesNothing == RerunWritesNothing

\* C12 (amended): the same, for a document whose sheets the file template
\* renders to different full paths.
C12_DistinctPathsRerunWritesNothing ==
    (\A i, j \in 1..Len(doc) : i # j => PathOf(i) # PathOf(j)) => RerunWritesNothing

C12_Witness ==
    /\ run = 2 /\ pc = "done" /\ ret = NoErr /\ Len(doc) = 2 /\ changed = {}
    /\ doc = prev
    /\ \A i \in 1..Len(doc) : results[i] = 1
    /\ PathOf(1) # PathOf(2)
    /\ doc[1].Rows # doc[2].Rows

\* C13: no invalidation is requested before the pipeline has ended; after
\* a pipeline that returned nil exactly one request, for all the changed
\* paths, has been made if some sheet was written and a distribution is
\* configured, and none otherwise; the changed paths are paths of sheets
\* whose result was received, and all hold written data.
C13_InvalidatesOnceIffChanged ==
    /\ pc # "exit" => invalidations = <<>>
    /\ (pc = "exit" /\ ret.kind \in {Nil, "InvalidationError"}) =>
          IF changed # {} /\ dist # NoDist
          THEN invalidations = <<changed>>
          ELSE invalidations = <<>> /\ ret = NoErr
    /\ (pc = "exit" /\ ret.kind \notin {Nil, "InvalidationError"}) => invalidations = <<>>
    /\ changed \subseteq {PathOf(i) : i \in {j \in 1..Len(doc) : results[j] = 1}}
    /\ changed \subseteq DOMAIN store

C13_Witness ==
    /\ pc = "exit" /\ run = 2 /\ dist # NoDist /\ Len(doc) = 2
    /\ results[1] = 1 /\ results[2] = 1
    /\ changed = {PathOf(2)} /\ PathOf(1) # PathOf(2)
    /\ invalidations = <<{PathOf(2)}>> /\ ret = NoErr

\* C14: while the context is not cancelled and sheets remain or results
\* are awaited, the loop or some worker can take a step; and when every
\* worker is blocked sending its result while sheets remain, the loop can
\* receive a result.
C14_DispatchNeverBlocksDrain ==
    (pc = "loop" /\ ~cancelled) =>
       /\ (Len(sheets) > 0 \/ waitingOn > 0) => ENABLED PoolStep
       /\ (Len(sheets) > 0 /\ \A w \in 1..c.NWorkers : wpc[w] = "send")
             => ENABLED (\E w \in Workers : Receive(w))

C14_Witness ==
    /\ pc = "loop" /\ ~cancelled /\ c.NWorkers = 1 /\ Len(sheets) > 0
    /\ wpc[1] = "send" /\ waitingOn = 1

\* C15: Exec has returned nil only with no sheet remaining, no result
\* awaited, a result received for every hand-off and none of them an
\* error; with a document of no sheets the pool returns nil and no sheet
\* was handed off.
C15_SuccessOnlyWhenDrained ==
    /\ Completed =>
          /\ sheets = <<>> /\ waitingOn = 0
          /\ recvErrs = <<>> /\ NReceived = Len(handed)
          /\ \A w \in Workers : ws[w] = 0 /\ werr[w] = NoErr
    /\ (pc = "done" /\ Started # {} /\ Len(doc) = 0) =>
          (Completed /\ handed = <<>> /\ NReceived = 0)

C15_Witness ==
    /\ Completed /\ c.NWorkers = 1 /\ Len(doc) = 2
    /\ sheets = <<>> /\ waitingOn = 0 /\ NReceived = 2

\* C16: the sheets handed off so far are the first sheets of the document
\* in the document's order, and the remaining sheets are the rest of it.
C16_HandOffInDocumentOrder ==
    /\ Len(handed) <= Len(doc)
    /\ \A k \in 1..Len(handed) : handed[k] = doc[k].id
    /\ pc = "loop" => sheets = SubSeq(doc, Len(handed) + 1, Len(doc))

\* The result of the second sheet is received before that of the first.
C16_Witness ==
    /\ handed = <<1, 2>> /\ doc[1].id = 1 /\ doc[2].id = 2
    /\ results[2] = 1 /\ results[1] = 0

\* C18: in the dispatch loop waitingOn is the number of hand-offs less the
\* number of results received, lies between 0 and NWorkers, and the
\* hand-offs and the remaining sheets add up to the document's sheets.
C18_WaitingOnCountsOutstanding ==
    pc = "loop" =>
       /\ waitingOn = Len(handed) - NReceived
       /\ 0 <= waitingOn /\ waitingOn <= c.NWorkers
       /\ Len(handed) + Len(sheets) = Len(doc)
       /\ waitingOn = Cardinality({w \in Workers : wpc[w] \in {"upload", "write", "send"}})

C18_Witness ==
    /\ pc = "loop" /\ c.NWorkers = 2 /\ waitingOn = 2 /\ NReceived = 0 /\ sheets = <<>>

\* C17: a task whose file name fails to render (or whose encoding fails)
\* ends with that error without a lookup and without reaching WriteAll,
\* and a document whose names all fail leaves the bucket empty; a lookup
\* has been made, on the rendered name and the encoded rows, by the time
\* of the decision to skip or write; a failed write is the task's error.
C17_RenderEncodeLookupWrite ==
    /\ \A w \in Workers :
         /\ (ws[w] # 0 /\ ExecuteFile(c.FileTemplate, doc[ws[w]]).err # Nil) =>
               /\ wpc[w] \in {"upload", "send"}
               /\ attrs[w] = NoAttrs
               /\ wpc[w] = "send" =>
                     /\ wret[w] = "render"
                     /\ werr[w] = Err("could not use file path template", ws[w])
         /\ wret[w] \in {"render", "csv"} =>
               (attrs[w] = NoAttrs /\ wpc[w] = "send" /\ werr[w] # NoErr)
         /\ wret[w] \in {"skip", "write"} =>
               /\ attrs[w] # NoAttrs
               /\ ExecuteFile(c.FileTemplate, doc[ws[w]]).err = Nil
               /\ sb[w] = ExecuteFile(c.FileTemplate, doc[ws[w]]).out
               /\ buf[w] = EncodeRows(doc[ws[w]].Rows, 1, c.UseCRLF)
         /\ wret[w] = "writefail" =>
               (werr[w] = Err("WriteError", ws[w]) /\ wpc[w] = "send")
         /\ wret[w] = "written" => (werr[w] = NoErr /\ FullPath(w) \in DOMAIN store)
    /\ (\A i \in 1..Len(doc) : ExecuteFile(c.FileTemplate, doc[i]).err # Nil) =>
          (store = <<>> /\ changed = {})

C17_Witness ==
    \E w \in Workers :
       /\ wret[w] = "render" /\ wpc[w] = "send" /\ ws[w] = 2
       /\ werr[w].kind = "could not use file path template"
       /\ attrs[w] = NoAttrs /\ store = <<>>

\* C19: the file name, the full path and the payload a worker holds for a
\* sheet, and the bytes it hashed, are those computed from the sheet, the
\* directory and the configuration alone, whichever worker holds it and
\* whatever it processed before.
C19_NoLeftoverBetweenTasks ==
    \A w \in Workers :
       ws[w] # 0 =>
          LET s == doc[ws[w]]
              payload == ConcatRecords(SelectSeq(s.Rows, NonBlank), 1, c.UseCRLF)
          IN /\ wret[w] \in {"render", "skip", "write", "written", "writefail"} =>
                   /\ sb[w] = ExecuteFile(c.FileTemplate, s).out
                   /\ FullPath(w) = PathOf(ws[w])
             /\ wret[w] \in {"skip", "write", "written", "writefail"} => buf[w] = payload
             /\ (wret[w] \in {"skip", "write"} /\ attrs[w].err = Nil /\ attrs[w].MD5 # NoMD5) =>
                   h[w] = payload

\* In a second run the one worker has hashed and skipped the first sheet
\* (its result is received, nothing was written, no error came) and has
\* now rendered, encoded and hashed a second sheet of another name and
\* content with the same builder, buffer and hash.
C19_Witness ==
    /\ run = 2 /\ pc = "loop" /\ c.NWorkers = 1 /\ c.FileTemplate = FtDefault
    /\ ws[1] = 2 /\ results[1] = 1 /\ changed = {} /\ recvErrs = <<>>
    /\ doc[1].Rows # doc[2].Rows
    /\ wret[1] = "skip"
    /\ attrs[1].err = Nil /\ attrs[1].MD5 # NoMD5
    /\ h[1] = buf[1] /\ h[1] # EncodeRows(doc[1].Rows, 1, c.UseCRLF)

\* C21: makeCSV writing to a file returns an error whenever a write to
\* the file failed, during the rows or in the flush at the end, and
\* returns nil only when every byte of the encoding reached the file.
C21_SinkFailureIsReturned ==
    (res.done /\ arg.fn = "makeCSVFile") =>
       /\ res.failed => res.err # Nil
       /\ res.err = Nil => res.sunk = Len(EncodeRows(arg.rows, 1, c.UseCRLF))

====
